---- MODULE Spec2Model ----
(***************************************************************************)
(* A model of the city simulation: the Pop (citizen) record and its        *)
(* happiness adjustment, the City with its daily resource pass and its     *)
(* facility mutators, the HappinessTracker, and Sim.advance_day with the   *)
(* newcomer, leaver and disaster rolls (src/src/city/city.py,              *)
(* src/src/simulation/sim.py), plus the stand-alone Pop variants and the   *)
(* decision classes (src/src/city/population.py,                           *)
(* src/src/city/population/population.py, src/src/city/decisions.py,       *)
(* src/src/city/population/decisions.py).                                  *)
(*                                                                         *)
(* random.random() < p with a fixed p is modelled by its boolean outcome,  *)
(* chosen nondeterministically.  Where the probability is itself computed  *)
(* (the decision classes) probabilities and draws are in hundredths.       *)
(* average_happiness is a Python float total/len; it is kept as the pair   *)
(* (total, count) and compared by cross-multiplication.                    *)
(***************************************************************************)
EXTENDS Integers, Sequences, FiniteSets, TLC

----------------------------------------------------------------------------
(* Bounds of the model *)

\* number of advance_day calls explored
MaxDay == 2
\* total the mutators may add to the facility counters in one run
MaxAdd == 1
\* a per-citizen draw may succeed only for the first and the last MaxRollPos
\* citizens it is made for
MaxRollPos == 1
\* random draws that may fall below their threshold in one run
MaxHits == 1
\* largest population the City is constructed with
MaxInitPop == 56
\* number of consecutive calls on the stand-alone citizen
MaxCalls == 3
\* Population instances and Pop objects created for them in one run
MaxRegistries == 2
MaxPops == 2

----------------------------------------------------------------------------
(* Program constants *)

WATER_FACILITIES_0 == 2
ELECTRICITY_FACILITIES_0 == 2
HOUSING_UNITS_0 == 30
PER_FACILITY == 20
DISASTER_PENALTY == 50
SICK_PENALTY == 15
BASIC_WEIGHT == 10
COMFORT_WEIGHT == 5
TIER_HIGH == 20
TIER_MID == 10
NEWCOMERS_HIGH == 20
NEWCOMERS_MID == 10
NEWCOMERS_LOW == 1

----------------------------------------------------------------------------
VARIABLES
  population,              \* City.population: the list of Pop objects
  water_facilities,        \* City.water_facilities
  electricity_facilities,  \* City.electricity_facilities
  housing_units,           \* City.housing_units
  average_happiness,       \* HappinessTracker.average_happiness, as total/count
  pc,                      \* statements of Sim.advance_day already executed (0 = at the menu)
  day,                     \* advance_day calls started
  next_id,                 \* identity of the next Pop object constructed
  steps,                   \* statements executed by the current / last advance_day
  newcomers,               \* local `newcomers` of the last roll_for_newcomers
  nc_rolls,                \* outcome of each tier's random draw in that call
  sick_rolls,              \* citizens (ids) whose sickness roll fired in the last pass
  disaster,                \* outcome of the last roll_disasters draw
  hits,                    \* random draws so far that fell below their threshold
  raised,                  \* whether the last call from the menu raised ValueError
  calm_happiness,          \* each citizen's happiness had the latest disaster roll failed
  citizen,                 \* a stand-alone Pop object
  citizen_class,           \* the module its class comes from
  history,                 \* happiness and sickness roll after each adjust_happiness on it
  decision,                \* the last decision roll: rule, chance, draw, result
  registries,              \* the Population instances: each one's own `pops` attribute
  class_pops,              \* the class attribute Population.pops: <<>> unset, else <<list>>
  made,                    \* Pop objects constructed for the registries
  objs,                    \* two-city heap: the Pop objects, by identity
  lists,                   \* two-city heap: the list objects, each a sequence of identities
  cities,                  \* two-city heap: the City objects
  luck                     \* two-city heap: draws so far that fell below their threshold

simVars == <<population, water_facilities, electricity_facilities, housing_units,
             average_happiness, pc, day, next_id, steps, newcomers, nc_rolls,
             sick_rolls, disaster, hits, raised, calm_happiness>>
unitVars == <<citizen, citizen_class, history, decision>>
regVars == <<registries, class_pops, made>>
heapVars == <<objs, lists, cities, luck>>
vars == <<simVars, unitVars, regVars, heapVars>>

----------------------------------------------------------------------------
(* Pop *)

\* Pop.__init__: happiness 0, every need unmet
Pop(id) ==
  [id |-> id, overall_happiness |-> 0, water_received |-> FALSE,
   electricity_received |-> FALSE, has_home |-> FALSE, entertained |-> FALSE,
   sick |-> FALSE, garbage_collected |-> FALSE]

Weight(met, w) == IF met THEN w ELSE 0 - w

\* the sum of the ten += / -= statements of adjust_happiness
NeedsDelta(p) ==
  Weight(p.water_received, BASIC_WEIGHT) + Weight(p.electricity_received, BASIC_WEIGHT)
  + Weight(p.has_home, BASIC_WEIGHT) + Weight(p.entertained, COMFORT_WEIGHT)
  + Weight(p.garbage_collected, COMFORT_WEIGHT)

\* the trailing sickness roll of adjust_happiness, applied to happiness h
SickStep(p, h, roll) ==
  IF roll
    THEN [p EXCEPT !.sick = TRUE, !.overall_happiness = h - SICK_PENALTY]
    ELSE [p EXCEPT !.overall_happiness = h]

\* city.py Pop.adjust_happiness: starts from the current overall_happiness
adjust_happiness(p, roll) == SickStep(p, p.overall_happiness + NeedsDelta(p), roll)

\* population.py and population/population.py Pop.adjust_happiness: these
\* start with self.overall_happiness = 0
adjust_happiness_reset(p, roll) == SickStep(p, 0 + NeedsDelta(p), roll)

----------------------------------------------------------------------------
(* HappinessTracker *)

\* sum([person.overall_happiness for person in population])
RECURSIVE SumFrom(_, _)
SumFrom(pop, i) ==
  IF i > Len(pop) THEN 0
  ELSE pop[i].overall_happiness + SumFrom(pop, i + 1)

SumHappiness(pop) == SumFrom(pop, 1)

\* a variant that leaves the last citizen out of the average
update_happiness_short(pop) ==
  IF Len(pop) > 1
    THEN [total |-> SumHappiness(SubSeq(pop, 1, Len(pop) - 1)), count |-> Len(pop) - 1]
    ELSE [total |-> 0, count |-> 1]

\* update_happiness: total / len(population) if population else 0
update_happiness(pop) ==
  IF Len(pop) > 0
    THEN [total |-> SumHappiness(pop), count |-> Len(pop)]
    ELSE [total |-> 0, count |-> 1]

\* comparisons of the float total/count with an integer k
AvgGE(a, k) == a.total >= k * a.count
AvgGT(a, k) == a.total > k * a.count
AvgLT(a, k) == a.total < k * a.count

----------------------------------------------------------------------------
(* City *)

\* a variant whose slices are one citizen short
Distribute_short(pop, water_cap, elec_cap, homes) ==
  [i \in 1..Len(pop) |->
     [pop[i] EXCEPT
        !.water_received = IF i < water_cap THEN TRUE ELSE @,
        !.electricity_received = IF i < elec_cap THEN TRUE ELSE @,
        !.has_home = IF i < homes THEN TRUE ELSE @]]

\* population[:n] marks: index i (1-based) is in the slice iff i <= n
Distribute(pop, water_cap, elec_cap, homes) ==
  [i \in 1..Len(pop) |->
     [pop[i] EXCEPT
        !.water_received = IF i <= water_cap THEN TRUE ELSE @,
        !.electricity_received = IF i <= elec_cap THEN TRUE ELSE @,
        !.has_home = IF i <= homes THEN TRUE ELSE @]]

\* the k lowest and the k highest members of a set of positions
RECURSIVE Lowest(_, _)
Lowest(S, k) ==
  IF k = 0 \/ S = {} THEN {}
  ELSE LET m == CHOOSE x \in S : \A y \in S : x <= y
       IN {m} \cup Lowest(S \ {m}, k - 1)

RECURSIVE Highest(_, _)
Highest(S, k) ==
  IF k = 0 \/ S = {} THEN {}
  ELSE LET m == CHOOSE x \in S : \A y \in S : x >= y
       IN {m} \cup Highest(S \ {m}, k - 1)

\* the positions, among those a draw is made for, where it may succeed
RollWindow(S) == Lowest(S, MaxRollPos) \cup Highest(S, MaxRollPos)

\* the sets of sickness-roll outcomes considered for a pass over n citizens
SickSets(n) == SUBSET RollWindow(1..n)

\* City.on_advance_day, given the positions whose sickness roll fires
DailyPass(pop, wf, ef, hu, sickPos) ==
  LET served == Distribute(pop, wf * PER_FACILITY, ef * PER_FACILITY, hu)
  IN [i \in 1..Len(pop) |-> adjust_happiness(served[i], i \in sickPos)]

\* the citizens with happiness values c in place of their own, and back
Shadow(pop, c) == [i \in 1..Len(pop) |-> [pop[i] EXCEPT !.overall_happiness = c[i]]]
HappinessOf(pop) == [i \in 1..Len(pop) |-> pop[i].overall_happiness]
Ids(pop) == [i \in 1..Len(pop) |-> pop[i].id]

----------------------------------------------------------------------------
(* Sim *)

\* a variant that rolls for leavers after the daily pass
advance_day_body_late_leavers ==
  <<"roll_for_newcomers", "on_advance_day", "roll_for_leavers", "roll_disasters">>

\* the body of Sim.advance_day, statement by statement
advance_day_body ==
  <<"roll_for_newcomers", "roll_for_leavers", "on_advance_day", "roll_disasters">>

AtStatement(name) == advance_day_body[pc + 1] = name

\* bookkeeping common to every statement of advance_day; k of its draws succeed
Advance(name, k) ==
  /\ AtStatement(name)
  /\ hits + k <= MaxHits
  /\ hits' = hits + k
  /\ pc' = (pc + 1) % Len(advance_day_body)
  /\ steps' = IF pc = 0 THEN <<name>> ELSE Append(steps, name)
  /\ day' = IF pc = 0 THEN day + 1 ELSE day
  /\ pc = 0 => day < MaxDay
  /\ raised' = IF pc = 0 THEN FALSE ELSE raised
  /\ UNCHANGED <<unitVars, regVars, heapVars>>

\* a variant with three independent ifs, whose tiers add up
NewcomerCount_cumulative(avg, r) ==
  (IF AvgGE(avg, TIER_HIGH) /\ r[1] THEN NEWCOMERS_HIGH ELSE 0)
  + (IF AvgGT(avg, TIER_MID) /\ r[2] THEN NEWCOMERS_MID ELSE 0)
  + (IF AvgGT(avg, 0) /\ r[3] THEN NEWCOMERS_LOW ELSE 0)

\* the if / elif / elif chain of roll_for_newcomers; r[k] is the k-th tier's draw
NewcomerCount(avg, r) ==
  IF AvgGE(avg, TIER_HIGH) /\ r[1] THEN NEWCOMERS_HIGH
  ELSE IF AvgGT(avg, TIER_MID) /\ r[2] THEN NEWCOMERS_MID
  ELSE IF AvgGT(avg, 0) /\ r[3] THEN NEWCOMERS_LOW
  ELSE 0

\* which draws the chain makes (`and` and `elif` short-circuit) and how they fall
DrawsMade(avg, r) ==
  LET d1 == AvgGE(avg, TIER_HIGH)
      d2 == ~(d1 /\ r[1]) /\ AvgGT(avg, TIER_MID)
      d3 == ~(d1 /\ r[1]) /\ ~(d2 /\ r[2]) /\ AvgGT(avg, 0)
      Show(drawn, hit) == IF ~drawn THEN "none" ELSE IF hit THEN "hit" ELSE "miss"
  IN <<Show(d1, r[1]), Show(d2, r[2]), Show(d3, r[3])>>

roll_for_newcomers(r) ==
  LET n == NewcomerCount(average_happiness, r)
  IN /\ Advance("roll_for_newcomers", IF n > 0 THEN 1 ELSE 0)
     /\ newcomers' = n
     /\ nc_rolls' = DrawsMade(average_happiness, r)
     /\ population' = population \o [i \in 1..n |-> Pop(next_id + i - 1)]
     /\ calm_happiness' = calm_happiness \o [i \in 1..n |-> Pop(next_id + i - 1).overall_happiness]
     /\ next_id' = next_id + n
     /\ UNCHANGED <<water_facilities, electricity_facilities, housing_units,
                    average_happiness, sick_rolls, disaster>>

\* the leaver rolls a call draws: one per citizen and missing need
LeaverDraws(pop) ==
  {<<i, "home">> : i \in {j \in 1..Len(pop) : ~pop[j].has_home}}
  \cup {<<i, "electricity">> : i \in {j \in 1..Len(pop) : ~pop[j].electricity_received}}
  \cup {<<i, "water">> : i \in {j \in 1..Len(pop) : ~pop[j].water_received}}

\* those of them that may succeed
LeaverHitDraws(pop) ==
  LET draws == LeaverDraws(pop)
      window == RollWindow({d[1] : d \in draws})
  IN {d \in draws : d[1] \in window}

RECURSIVE HitSets(_, _)
HitSets(S, k) ==
  IF k = 0 THEN {{}}
  ELSE LET prev == HitSets(S, k - 1)
       IN prev \cup {h \cup {x} : h \in prev, x \in S}

\* a variant that rolls only for the first missing need (if / elif / elif)
WantsToLeave_first_need(pop, i, won) ==
  IF ~pop[i].has_home THEN <<i, "home">> \in won
  ELSE IF ~pop[i].electricity_received THEN <<i, "electricity">> \in won
  ELSE ~pop[i].water_received /\ <<i, "water">> \in won

\* wants_to_leave of citizen i, given the set of draws that came out < .5
WantsToLeave(pop, i, won) ==
  \/ ~pop[i].has_home /\ <<i, "home">> \in won
  \/ ~pop[i].electricity_received /\ <<i, "electricity">> \in won
  \/ ~pop[i].water_received /\ <<i, "water">> \in won

\* a variant that inserts each staying citizen at the front of the new list
RECURSIVE PopsThatStay_front(_, _, _)
PopsThatStay_front(pop, i, won) ==
  IF i > Len(pop) THEN <<>>
  ELSE PopsThatStay_front(pop, i + 1, won)
       \o (IF WantsToLeave(pop, i, won) THEN <<>> ELSE <<pop[i]>>)

\* pops_that_stay: the citizens from index i on that do not want to leave
RECURSIVE PopsThatStay(_, _, _)
PopsThatStay(pop, i, won) ==
  IF i > Len(pop) THEN <<>>
  ELSE (IF WantsToLeave(pop, i, won) THEN <<>> ELSE <<pop[i]>>)
       \o PopsThatStay(pop, i + 1, won)

\* a variant that also evaluates the loop at an average of exactly 0
LeaversEvaluated_le(avg) == ~AvgGT(avg, 0)

\* a variant whose loop is guarded by the middle newcomer threshold
LeaversEvaluated_below_mid(avg) == AvgLT(avg, TIER_MID)

\* the guard of the leaver loop
LeaversEvaluated(avg) == AvgLT(avg, 0)

roll_for_leavers(won) ==
  /\ Advance("roll_for_leavers", Cardinality(won))
  /\ population' = IF LeaversEvaluated(average_happiness)
                     THEN PopsThatStay(population, 1, won)
                     ELSE population
  /\ calm_happiness' =
       IF LeaversEvaluated(average_happiness)
         THEN HappinessOf(PopsThatStay(Shadow(population, calm_happiness), 1, won))
         ELSE calm_happiness
  /\ UNCHANGED <<water_facilities, electricity_facilities, housing_units,
                 average_happiness, next_id, newcomers, nc_rolls, sick_rolls, disaster>>

on_advance_day(sickPos) ==
  LET pop == DailyPass(population, water_facilities, electricity_facilities,
                       housing_units, sickPos)
  IN /\ Advance("on_advance_day", Cardinality(sickPos))
     /\ population' = pop
     /\ average_happiness' = update_happiness(pop)
     /\ sick_rolls' = {population[i].id : i \in sickPos}
     /\ calm_happiness' =
          HappinessOf(DailyPass(Shadow(population, calm_happiness), water_facilities,
                                electricity_facilities, housing_units, sickPos))
     /\ UNCHANGED <<water_facilities, electricity_facilities, housing_units,
                    next_id, newcomers, nc_rolls, disaster>>

\* a variant whose loop stops after the first citizen
Strike_first(pop) ==
  [i \in 1..Len(pop) |->
     IF i = 1 THEN [pop[i] EXCEPT !.overall_happiness = @ - DISASTER_PENALTY] ELSE pop[i]]

\* a variant that assigns the penalty instead of subtracting it
Strike_assigns(pop) ==
  [i \in 1..Len(pop) |-> [pop[i] EXCEPT !.overall_happiness = 0 - DISASTER_PENALTY]]

\* the loop of roll_disasters
Strike(pop) ==
  [i \in 1..Len(pop) |->
     [pop[i] EXCEPT !.overall_happiness = @ - DISASTER_PENALTY]]

roll_disasters(hit) ==
  /\ Advance("roll_disasters", IF hit THEN 1 ELSE 0)
  /\ disaster' = hit
  /\ population' = IF hit THEN Strike(population) ELSE population
  /\ calm_happiness' = HappinessOf(population)
  /\ UNCHANGED <<water_facilities, electricity_facilities, housing_units,
                 average_happiness, next_id, newcomers, nc_rolls, sick_rolls>>

----------------------------------------------------------------------------
(* City mutators, called from the menu between days *)

\* a mutator called from the menu; error: whether it raises
Call(error) ==
  /\ pc = 0
  /\ day < MaxDay
  /\ raised' = error
  /\ UNCHANGED <<population, average_happiness, pc, day, next_id, steps, newcomers,
                 nc_rolls, sick_rolls, disaster, hits, calm_happiness, unitVars,
                 regVars, heapVars>>

\* a variant without the check
Rejects_never(n) == FALSE

\* the guard `if fac_to_add < 0: raise ValueError`
Rejects(n) == n < 0

add_water_facilities(n) ==
  /\ Call(Rejects(n))
  /\ water_facilities' = IF Rejects(n) THEN water_facilities ELSE water_facilities + n
  /\ UNCHANGED <<electricity_facilities, housing_units>>

add_electricity_facilities(n) ==
  /\ Call(Rejects(n))
  /\ electricity_facilities' =
       IF Rejects(n) THEN electricity_facilities ELSE electricity_facilities + n
  /\ UNCHANGED <<water_facilities, housing_units>>

\* a variant that assigns the argument instead of adding it
add_housing_units_assigns(n) ==
  /\ Call(Rejects(n))
  /\ housing_units' = IF Rejects(n) THEN housing_units ELSE n
  /\ UNCHANGED <<water_facilities, electricity_facilities>>

add_housing_units(n) ==
  /\ Call(Rejects(n))
  /\ housing_units' = IF Rejects(n) THEN housing_units ELSE housing_units + n
  /\ UNCHANGED <<water_facilities, electricity_facilities>>

----------------------------------------------------------------------------
(* Decision rules; chances and draws in hundredths *)

BASE_ROLL_CHANCE == 50
DISASTER_CHANCE == 1
STAY_BASE_CHANCE == 90
NO_HOME_PENALTY == 20
LOW_HAPPINESS_PENALTY == 30

NoDecision == [rule |-> "none", chance |-> 0, draw |-> 0, result |-> FALSE]

\* random.random() < chance_percentage
RollBelow(draw, chance) == draw < chance

\* StayDecision.roll: the chance it sets before super().roll()
StayChance(p) ==
  STAY_BASE_CHANCE
  + (IF ~p.has_home THEN NO_HOME_PENALTY ELSE 0)
  + (IF p.overall_happiness < 0 THEN LOW_HAPPINESS_PENALTY ELSE 0)

----------------------------------------------------------------------------
(* The simulation *)

\* City(population=[Pop() ...]) with n fresh citizens, then Sim(city)
InitSizes == {0, 1, HOUSING_UNITS_0, WATER_FACILITIES_0 * PER_FACILITY + 1, MaxInitPop}

SimStart(n) ==
  /\ population = [i \in 1..n |-> Pop(i)]
  /\ next_id = n + 1
  /\ water_facilities = WATER_FACILITIES_0
  /\ electricity_facilities = ELECTRICITY_FACILITIES_0
  /\ housing_units = HOUSING_UNITS_0
  /\ average_happiness = update_happiness(population)
  /\ pc = 0
  /\ day = 0
  /\ steps = <<>>
  /\ newcomers = 0
  /\ nc_rolls = <<"none", "none", "none">>
  /\ sick_rolls = {}
  /\ disaster = FALSE
  /\ hits = 0
  /\ raised = FALSE
  /\ calm_happiness = HappinessOf(population)

\* no Population instance yet, the class attribute not yet set
RegStart ==
  /\ registries = <<>>
  /\ class_pops = <<>>
  /\ made = 0

\* City.__init__ with the list object `ref` as its population
NewCity(ref, pop) ==
  [population |-> ref,
   average_happiness |-> update_happiness(pop),
   water_facilities |-> WATER_FACILITIES_0,
   electricity_facilities |-> ELECTRICITY_FACILITIES_0,
   housing_units |-> HOUSING_UNITS_0,
   day |-> 0]

\* the default argument `[Pop()]` of City.__init__ is evaluated once, when the
\* class is defined: list object 1 holding Pop object 1; then City() twice
HeapStart ==
  /\ objs = <<Pop(1)>>
  /\ lists = << <<1>> >>
  /\ cities = [c \in {"a", "b"} |-> NewCity(1, <<Pop(1)>>)]
  /\ luck = 0

Init ==
  /\ \E n \in InitSizes : SimStart(n)
  /\ citizen = Pop(0)
  /\ citizen_class = "city.Pop"
  /\ history = <<>>
  /\ decision = NoDecision
  /\ RegStart
  /\ HeapStart

\* arguments given to the mutators, and what they have added so far
AddArgs == (0 - 1)..MaxAdd
Added ==
  (water_facilities - WATER_FACILITIES_0)
  + (electricity_facilities - ELECTRICITY_FACILITIES_0)
  + (housing_units - HOUSING_UNITS_0)

Next ==
  \/ \E r \in [1..3 -> BOOLEAN] : roll_for_newcomers(r)
  \/ \E won \in HitSets(IF LeaversEvaluated(average_happiness)
                           THEN LeaverHitDraws(population) ELSE {}, MaxHits - hits) :
       roll_for_leavers(won)
  \/ \E sickPos \in SickSets(Len(population)) : on_advance_day(sickPos)
  \/ \E hit \in BOOLEAN : roll_disasters(hit)
  \/ \E n \in AddArgs : Added + n <= MaxAdd /\ add_water_facilities(n)
  \/ \E n \in AddArgs : Added + n <= MaxAdd /\ add_electricity_facilities(n)
  \/ \E n \in AddArgs : Added + n <= MaxAdd /\ add_housing_units(n)

Spec == Init /\ [][Next]_vars

----------------------------------------------------------------------------
(* The stand-alone citizen and the decision rules *)

PopClasses == {"city.Pop", "population.Pop"}

\* a Pop whose need attributes have been set, happiness as constructed
Citizens ==
  {[Pop(0) EXCEPT !.water_received = w, !.electricity_received = e, !.has_home = h,
                  !.entertained = t, !.garbage_collected = g] :
     w \in BOOLEAN, e \in BOOLEAN, h \in BOOLEAN, t \in BOOLEAN, g \in BOOLEAN}

\* the adjust_happiness of the citizen's class
AdjustOf(class, p, roll) ==
  IF class = "city.Pop" THEN adjust_happiness(p, roll) ELSE adjust_happiness_reset(p, roll)

\* citizen.adjust_happiness(), roll being the outcome of its sickness draw
AdjustHappiness(roll) ==
  /\ Len(history) < MaxCalls
  /\ citizen' = AdjustOf(citizen_class, citizen, roll)
  /\ history' = Append(history, [happiness |-> citizen'.overall_happiness, sick_roll |-> roll])
  /\ UNCHANGED <<citizen_class, decision, simVars, regVars, heapVars>>

Decide(rule, chance, draw) ==
  /\ decision' = [rule |-> rule, chance |-> chance, draw |-> draw,
                  result |-> RollBelow(draw, chance)]
  /\ UNCHANGED <<citizen, citizen_class, history, simVars, regVars, heapVars>>

\* StayDecision(city, citizen).roll()
stay_decision_roll(draw) == Decide("StayDecision", StayChance(citizen), draw)

\* DisasterDecision(city).roll()
disaster_decision_roll(draw) == Decide("DisasterDecision", DISASTER_CHANCE, draw)

\* DecisionBase(city).roll()
decision_base_roll(draw) == Decide("DecisionBase", BASE_ROLL_CHANCE, draw)

\* DecisionsBase(city).roll(chance_percentage)
decisions_base_roll(chance, draw) == Decide("DecisionsBase", chance, draw)

\* values of random.random(), and arguments given to DecisionsBase.roll
Draws == {0, 50, 99}
ChanceArgs == {0 - 50, 0, 50, 100, 150}

UnitInit ==
  /\ SimStart(0)
  /\ citizen \in Citizens
  /\ citizen_class \in PopClasses
  /\ history = <<>>
  /\ decision = NoDecision
  /\ RegStart
  /\ HeapStart

UnitNext ==
  \/ \E roll \in BOOLEAN : AdjustHappiness(roll)
  \/ \E draw \in Draws : stay_decision_roll(draw)
  \/ \E draw \in Draws : disaster_decision_roll(draw)
  \/ \E draw \in Draws : decision_base_roll(draw)
  \/ \E chance \in ChanceArgs, draw \in Draws : decisions_base_roll(chance, draw)

UnitSpec == UnitInit /\ [][UnitNext]_vars

----------------------------------------------------------------------------
(* The Population registry and CityManager.manage_population *)

\* a Pop as constructed, or with home, water and electricity set by the caller
NewPops(id) ==
  {Pop(id),
   [Pop(id) EXCEPT !.has_home = TRUE, !.water_received = TRUE,
                   !.electricity_received = TRUE]}

\* lists of up to k new Pop objects
RECURSIVE NewLists(_, _)
NewLists(id, k) ==
  IF k = 0 THEN {<<>>}
  ELSE {<<>>} \cup {<<p>> \o rest : p \in NewPops(id), rest \in NewLists(id + 1, k - 1)}

\* `self.pops` on an instance: __init__ has set the instance attribute, which
\* is found before the class attribute
PopsOf(registry) == registry.pops

\* Population()
NewPopulation == [pops |-> <<>>]

RegStep == UNCHANGED <<simVars, unitVars, heapVars>>

new_population ==
  /\ Len(registries) < MaxRegistries
  /\ registries' = Append(registries, NewPopulation)
  /\ UNCHANGED <<class_pops, made>>
  /\ RegStep

\* Population.from_list(pops_list): `population = cls(); cls.pops = pops_list`
from_list(pops_list) ==
  /\ Len(registries) < MaxRegistries
  /\ registries' = Append(registries, NewPopulation)
  /\ class_pops' = <<pops_list>>
  /\ made' = made + Len(pops_list)
  /\ RegStep

add_pop(k, p) ==
  /\ made < MaxPops
  /\ registries' = [registries EXCEPT ![k].pops = Append(@, p)]
  /\ made' = made + 1
  /\ UNCHANGED class_pops
  /\ RegStep

\* list.remove: the list without its first element equal to p
Remove(pops, p) ==
  LET at == CHOOSE i \in 1..Len(pops) :
              pops[i] = p /\ \A j \in 1..(i - 1) : pops[j] # p
  IN SubSeq(pops, 1, at - 1) \o SubSeq(pops, at + 1, Len(pops))

remove_pop(k, i) ==
  /\ registries' = [registries EXCEPT ![k].pops = Remove(@, @[i])]
  /\ UNCHANGED <<class_pops, made>>
  /\ RegStep

\* Population.adjust_happiness; sickPos: whose sickness draw succeeds
population_adjust_happiness(k, sickPos) ==
  /\ registries' =
       [registries EXCEPT ![k].pops =
          [i \in 1..Len(@) |-> adjust_happiness_reset(@[i], i \in sickPos)]]
  /\ UNCHANGED <<class_pops, made>>
  /\ RegStep

\* pops_to_remove of manage_population, draw[i] being citizen i's stay draw
RECURSIVE PopsToRemove(_, _, _)
PopsToRemove(pops, draw, i) ==
  IF i > Len(pops) THEN <<>>
  ELSE (IF RollBelow(draw[i], StayChance(pops[i])) THEN <<>> ELSE <<pops[i]>>)
       \o PopsToRemove(pops, draw, i + 1)

RECURSIVE RemoveAll(_, _)
RemoveAll(pops, gone) ==
  IF gone = <<>> THEN pops ELSE RemoveAll(Remove(pops, Head(gone)), Tail(gone))

\* CityManager.manage_population on a city whose population is registry k
manage_population(k, draw) ==
  /\ registries' =
       [registries EXCEPT ![k].pops =
          RemoveAll(@, PopsToRemove(PopsOf(registries[k]), draw, 1))]
  /\ UNCHANGED <<class_pops, made>>
  /\ RegStep

RegInit ==
  /\ SimStart(0)
  /\ citizen = Pop(0)
  /\ citizen_class = "population.Pop"
  /\ history = <<>>
  /\ decision = NoDecision
  /\ RegStart
  /\ HeapStart

Registries == 1..Len(registries)

RegNext ==
  \/ new_population
  \/ \E pops_list \in NewLists(made + 1, MaxPops - made) : from_list(pops_list)
  \/ \E k \in Registries, p \in NewPops(made + 1) : add_pop(k, p)
  \/ \E k \in Registries : \E i \in 1..Len(PopsOf(registries[k])) : remove_pop(k, i)
  \/ \E k \in Registries :
       \E sickPos \in SUBSET (1..Len(PopsOf(registries[k]))) :
         population_adjust_happiness(k, sickPos)
  \/ \E k \in Registries :
       \E draw \in [1..Len(PopsOf(registries[k])) -> Draws] : manage_population(k, draw)

RegSpec == RegInit /\ [][RegNext]_vars

----------------------------------------------------------------------------
(* Two City objects constructed with the default population *)

\* city.population as Pop values: the list object it refers to, dereferenced
CityPops(o, l, city) == [i \in 1..Len(l[city.population]) |-> o[l[city.population][i]]]

\* the heap after the Pop objects of pop have been written back
Store(o, pop) ==
  [id \in 1..Len(o) |->
     IF \E i \in 1..Len(pop) : pop[i].id = id
       THEN pop[CHOOSE i \in 1..Len(pop) : pop[i].id = id]
       ELSE o[id]]

\* Sim(cities[c]).advance_day(): the four statements of advance_day_body on
\* the heap
sim_advance_day(c) ==
  LET city == cities[c]
      avg == city.average_happiness
  IN /\ city.day < MaxDay
     /\ \E r \in [1..3 -> BOOLEAN] :
          LET n == NewcomerCount(avg, r)
              objs1 == objs \o [i \in 1..n |-> Pop(Len(objs) + i)]
              lists1 == [lists EXCEPT ![city.population] =
                           @ \o [i \in 1..n |-> Len(objs) + i]]
              pop1 == CityPops(objs1, lists1, city)
              evaluated == LeaversEvaluated(avg)
          IN \E won \in HitSets(IF evaluated THEN LeaverHitDraws(pop1) ELSE {},
                                MaxHits - luck) :
               LET pop2 == IF evaluated THEN PopsThatStay(pop1, 1, won) ELSE pop1
                   lists2 == IF evaluated THEN Append(lists1, Ids(pop2)) ELSE lists1
                   ref2 == IF evaluated THEN Len(lists2) ELSE city.population
               IN \E sickPos \in SickSets(Len(pop2)), hit \in BOOLEAN :
                    LET pop3 == DailyPass(pop2, city.water_facilities,
                                          city.electricity_facilities,
                                          city.housing_units, sickPos)
                        pop4 == IF hit THEN Strike(pop3) ELSE pop3
                        used == (IF n > 0 THEN 1 ELSE 0) + Cardinality(won)
                                + Cardinality(sickPos) + (IF hit THEN 1 ELSE 0)
                    IN /\ luck + used <= MaxHits
                       /\ luck' = luck + used
                       /\ objs' = Store(objs1, pop4)
                       /\ lists' = lists2
                       /\ cities' = [cities EXCEPT
                                       ![c].population = ref2,
                                       ![c].average_happiness = update_happiness(pop3),
                                       ![c].day = @ + 1]
     /\ UNCHANGED <<simVars, unitVars, regVars>>

TwoCityNext == \E c \in DOMAIN cities : sim_advance_day(c)

TwoCitySpec == RegInit /\ [][TwoCityNext]_vars

----------------------------------------------------------------------------
(* Properties *)

LastStep == IF steps = <<>> THEN "none" ELSE steps[Len(steps)]
Min(a, b) == IF a < b THEN a ELSE b
Served(pop, need) == Cardinality({i \in 1..Len(pop) : pop[i][need]})

\* a.total / a.count is the mean of the citizens' happiness plus shift (0 when empty)
AvgIsMean(a, pop, shift) ==
  IF Len(pop) = 0 THEN a.total = 0
  ELSE a.total * Len(pop) = (SumHappiness(pop) + shift * Len(pop)) * a.count

\* C1: after every on_advance_day the citizen at (0-based) index i has water iff
\* i < water_facilities*20, electricity iff i < electricity_facilities*20 and a
\* home iff i < housing_units, so min(population, capacity) citizens are served.
C1_IndexRationing ==
  LastStep = "on_advance_day" =>
    /\ \A i \in 1..Len(population) :
         /\ population[i].water_received <=> (i <= water_facilities * PER_FACILITY)
         /\ population[i].electricity_received <=> (i <= electricity_facilities * PER_FACILITY)
         /\ population[i].has_home <=> (i <= housing_units)
    /\ Served(population, "water_received")
          = Min(Len(population), water_facilities * PER_FACILITY)
    /\ Served(population, "electricity_received")
          = Min(Len(population), electricity_facilities * PER_FACILITY)
    /\ Served(population, "has_home") = Min(Len(population), housing_units)

\* a pass under water scarcity in which a citizen who arrived beyond the water
\* capacity has moved within it because somebody before them left
C1_Witness ==
  /\ LastStep = "on_advance_day"
  /\ Len(population) > water_facilities * PER_FACILITY
  /\ \E i \in 1..Len(population) :
       /\ i <= water_facilities * PER_FACILITY
       /\ population[i].id > water_facilities * PER_FACILITY

\* C2: right after a day's happiness recomputation every citizen's happiness is
\* the weight-table sum of its needs, minus 15 only if that day's sickness roll
\* fired, whatever its happiness was on earlier days.
C2_RecomputedEachDay ==
  LastStep = "on_advance_day" =>
    \A i \in 1..Len(population) :
      population[i].overall_happiness
        = NeedsDelta(population[i])
          - (IF population[i].id \in sick_rolls THEN SICK_PENALTY ELSE 0)

DayOrder ==
  <<"roll_for_newcomers", "roll_for_leavers", "on_advance_day", "roll_disasters">>

\* C3: advance_day runs newcomer intake, leaver attrition, the daily pass and
\* the disaster roll once each in that order; membership does not change once
\* the pass has started and the disaster roll is the day's last statement.
C3_DayOrder ==
  /\ [](/\ Len(steps) <= Len(DayOrder)
        /\ steps = SubSeq(DayOrder, 1, Len(steps))
        /\ pc > 0 => Len(steps) = pc
        /\ (pc = 0 /\ day > 0) => steps = DayOrder)
  /\ [][(pc' # pc /\ LastStep' \in {"on_advance_day", "roll_disasters"})
          => Ids(population') = Ids(population)]_vars

\* a completed second day whose last statement was a disaster striking citizens
C3_Witness ==
  /\ pc = 0
  /\ day = 2
  /\ steps = DayOrder
  /\ disaster
  /\ Len(population) > 0

\* C4: each mutator called with n >= 0 adds exactly n to its own counter and
\* changes nothing else; called with n < 0 it raises and leaves the counters,
\* the population and the tracker unchanged.
C4_Mutators ==
  [][\A n \in AddArgs :
       LET Effect(w, e, h) ==
             /\ raised' <=> n < 0
             /\ water_facilities' = water_facilities + (IF n < 0 THEN 0 ELSE w)
             /\ electricity_facilities' = electricity_facilities + (IF n < 0 THEN 0 ELSE e)
             /\ housing_units' = housing_units + (IF n < 0 THEN 0 ELSE h)
             /\ population' = population
             /\ average_happiness' = average_happiness
       IN /\ add_water_facilities(n) => Effect(n, 0, 0)
          /\ add_electricity_facilities(n) => Effect(0, n, 0)
          /\ add_housing_units(n) => Effect(0, 0, n)]_vars

\* a rejected call made after an accepted one had raised the water counter
C4_Witness ==
  /\ pc = 0
  /\ raised
  /\ water_facilities > WATER_FACILITIES_0

\* C5 as stated: after every completed advance_day the tracker's average is the
\* mean happiness of the citizens then in the population (0 when empty), also
\* on a day on which a disaster struck.
C5_AverageAfterDay ==
  (pc = 0 /\ day > 0) => AvgIsMean(average_happiness, population, 0)

\* C5 amended: after every completed advance_day the tracker's average is the
\* mean of the happiness the citizens had at the end of the daily pass: the
\* current mean on a day without disaster, the current mean plus 50 on a day
\* with one, and 0 when the population is empty.
C5_AverageOfDailyPass ==
  (pc = 0 /\ day > 0) =>
    AvgIsMean(average_happiness, population, IF disaster THEN DISASTER_PENALTY ELSE 0)

\* a completed day on which a disaster struck several citizens
C5_Witness ==
  /\ pc = 0
  /\ day > 0
  /\ disaster
  /\ Len(population) > 1

\* C6: right after update_happiness at the end of on_advance_day the average is
\* the sum of happiness over the citizens now in the population divided by
\* their number, also after the leaver rule replaced the list, and 0 when empty.
C6_AverageAfterUpdate ==
  LastStep = "on_advance_day" => AvgIsMean(average_happiness, population, 0)

\* a pass over a list the leaver rule has replaced by a shorter one
C6_Witness ==
  /\ LastStep = "on_advance_day"
  /\ Len(population) > 0
  /\ Len(population) < next_id - 1

\* C7: when the average it reads is >= 0 the leaver rule leaves the population
\* as it was, whatever needs are unmet.
C7_NoLeaversAtNonNegative ==
  [][(AtStatement("roll_for_leavers") /\ pc' # pc /\ AvgGE(average_happiness, 0))
       => population' = population]_vars

\* the leaver rule has run at an average >= 0 over citizens without a home,
\* with draws left that could have succeeded
C7_Witness ==
  /\ LastStep = "roll_for_leavers"
  /\ AvgGE(average_happiness, 0)
  /\ hits < MaxHits
  /\ \E i \in 1..Len(population) : ~population[i].has_home

C9_Idempotent ==
  \A k \in 2..Len(history) :
    (~history[k].sick_roll /\ ~history[k - 1].sick_roll)
      => history[k].happiness = history[k - 1].happiness

\* C10: no decision rule evaluates a roll with a chance below 0 or above 1.
C10_ChanceInRange ==
  decision.rule # "none" => (decision.chance >= 0 /\ decision.chance <= 100)

\* C11: the three facility counters never decrease, so they stay at or above
\* their starting values 2, 2 and 30, and no statement of advance_day changes
\* any of them: they change only in a mutator call.
C11_CountersMonotone ==
  /\ [](/\ water_facilities >= WATER_FACILITIES_0
        /\ electricity_facilities >= ELECTRICITY_FACILITIES_0
        /\ housing_units >= HOUSING_UNITS_0)
  /\ [][/\ water_facilities' >= water_facilities
        /\ electricity_facilities' >= electricity_facilities
        /\ housing_units' >= housing_units
        /\ pc' # pc => /\ water_facilities' = water_facilities
                       /\ electricity_facilities' = electricity_facilities
                       /\ housing_units' = housing_units]_vars

\* housing was raised between two days and the second day has run to its end
C11_Witness ==
  /\ day = MaxDay
  /\ LastStep = "roll_disasters"
  /\ housing_units > HOUSING_UNITS_0

\* C12: only the first matching newcomer tier fires: the intake is 0 or 20 at
\* an average >= 20, 0 or 10 at an average strictly between 10 and 20, 0 or 1
\* at an average in (0, 10], and 0 at an average <= 0.
C12_FirstMatchingTier ==
  LastStep = "roll_for_newcomers" =>
    /\ AvgGE(average_happiness, TIER_HIGH) => newcomers \in {0, NEWCOMERS_HIGH}
    /\ (AvgGT(average_happiness, TIER_MID) /\ AvgLT(average_happiness, TIER_HIGH))
         => newcomers \in {0, NEWCOMERS_MID}
    /\ (AvgGT(average_happiness, 0) /\ ~AvgGT(average_happiness, TIER_MID))
         => newcomers \in {0, NEWCOMERS_LOW}
    /\ ~AvgGT(average_happiness, 0) => newcomers = 0

\* C13: after a day's daily pass every citizen's happiness is what it would
\* have been had the disaster roll of the day before failed, with the same
\* needs and the same sickness rolls.
C13_ShockDoesNotOutlast ==
  LastStep = "on_advance_day" =>
    \A i \in 1..Len(population) :
      population[i].overall_happiness = calm_happiness[i]

C15_LeaverRolls ==
  [][(AtStatement("roll_for_leavers") /\ pc' # pc /\ AvgLT(average_happiness, 0)) =>
     \A won \in SUBSET LeaverHitDraws(population) :
       roll_for_leavers(won) =>
         LET Missing(i) ==
               {need \in {"home", "electricity", "water"} :
                  \/ need = "home" /\ ~population[i].has_home
                  \/ need = "electricity" /\ ~population[i].electricity_received
                  \/ need = "water" /\ ~population[i].water_received}
             Leaves(i) == \E need \in Missing(i) : <<i, need>> \in won
         IN /\ {population'[j].id : j \in 1..Len(population')}
                 = {population[i].id : i \in {k \in 1..Len(population) : ~Leaves(k)}}
            /\ \A i \in 1..Len(population) :
                 (Missing(i) = {}) =>
                   \E j \in 1..Len(population') : population'[j] = population[i]]_vars

\* the rule has removed a citizen and kept one that had every need met
C15_Witness ==
  /\ LastStep = "roll_for_leavers"
  /\ AvgLT(average_happiness, 0)
  /\ Len(population) < next_id - 1
  /\ \E j \in 1..Len(population) :
       /\ population[j].has_home
       /\ population[j].electricity_received
       /\ population[j].water_received

\* C16: the population is in insertion order at all times (identifiers are
\* given in order of arrival), and from one step to the next a surviving
\* citizen's index never increases.
C16_InsertionOrder ==
  /\ [](\A i \in 1..(Len(population) - 1) :
          population[i].id < population[i + 1].id)
  /\ [][Ids(population') # Ids(population) =>
          \A i \in 1..Len(population), j \in 1..Len(population') :
            population'[j].id = population[i].id => j <= i]_vars

\* a citizen has left and a later one has moved up behind an earlier one
C16_Witness ==
  /\ LastStep = "roll_for_leavers"
  /\ Len(population) >= 2
  /\ \E j \in 2..Len(population) : population[j].id > j

C17_NotShared ==
  [][\A c, d \in DOMAIN cities :
       (c # d /\ cities'[c].day # cities[c].day) =>
         CityPops(objs', lists', cities'[d]) = CityPops(objs, lists, cities[d])]_vars

\* C19: StayDecision.roll uses a stay chance of at most the base chance 0.9
\* for a citizen without a home or with negative happiness.
C19_PenaltiesLowerChance ==
  [][\A draw \in Draws :
       (/\ stay_decision_roll(draw)
        /\ ~citizen.has_home \/ citizen.overall_happiness < 0)
         => decision'.chance <= STAY_BASE_CHANCE]_vars

\* C20: Population.from_list(pops_list) returns a registry whose own citizen
\* sequence is pops_list, and leaves every other registry's sequence as it was.
C20_FromList ==
  [][\A pops_list \in NewLists(made + 1, MaxPops - made) :
       from_list(pops_list) =>
         /\ PopsOf(registries'[Len(registries')]) = pops_list
         /\ \A k \in Registries : PopsOf(registries'[k]) = PopsOf(registries[k])]_vars

====
